---- MODULE Spec2Model ----
(***************************************************************************)
(* Model of the NGMC chatbot backend (src/Backend/app.py): the chat        *)
(* orchestrator (post_chat, continue_chat), the MongoDB-backed store       *)
(* (User, Chat, Conversation), the model gateway (call_chatgpt) and the    *)
(* reply extractor (extract_json_from_response).                           *)
(*                                                                         *)
(* Texts are sequences of tokens.  A token is a run of characters: the     *)
(* JSON structural characters, the double quote, the backslash and the     *)
(* blank are tokens of one character; a word (letters, digits of a prose   *)
(* word, punctuation other than the structural characters) is one token.   *)
(***************************************************************************)
EXTENDS Integers, Sequences, FiniteSets, TLC

----------------------------------------------------------------------------
(* Characters and texts *)

QUOTE == "\""
BSL == "\\"
WS == " "
NL == "<LF>"
LBRACE == "{"
RBRACE == "}"
LBRACK == "["
RBRACK == "]"
COLON == ":"
COMMA == ","
KReply == "reply"
KTitle == "title"
Digits == {"0", "1"}
Structural == {QUOTE, BSL, WS, NL, LBRACE, RBRACE, LBRACK, RBRACK, COLON, COMMA}

\* number of characters of a token (Python len counts characters)
CharLen(tok) ==
  CASE tok = "w1000" -> 1000
    [] tok = "w999" -> 999
    [] tok = KReply -> 5
    [] tok = KTitle -> 5
    [] tok = "null" -> 4
    [] tok = "hi" -> 2
    [] OTHER -> 1

RECURSIVE TextLen(_)
TextLen(s) == IF s = <<>> THEN 0 ELSE CharLen(Head(s)) + TextLen(Tail(s))

IsSpace(tok) == tok \in {WS, NL}

\* str.strip(): drop the leading and the trailing whitespace characters
RECURSIVE LStrip(_)
LStrip(s) == IF s # <<>> /\ IsSpace(Head(s)) THEN LStrip(Tail(s)) ELSE s

RECURSIVE RStrip(_)
RStrip(s) ==
  IF s # <<>> /\ IsSpace(s[Len(s)]) THEN RStrip(SubSeq(s, 1, Len(s) - 1)) ELSE s

Strip(s) == RStrip(LStrip(s))

----------------------------------------------------------------------------
(* JSON values, as json.loads builds them *)

Val(t, s, kv) == [t |-> t, s |-> s, kv |-> kv]
Str(s) == Val("str", s, <<>>)
Num(s) == Val("num", s, <<>>)
Null == Val("null", <<>>, <<>>)
Arr(items) == Val("arr", <<>>, items)
Obj(kv) == Val("obj", <<>>, kv)
Pair(k, v) == [k |-> k, v |-> v]
\* the absent value: dict.get of a missing key, a field never set
None == Val("none", <<>>, <<>>)

\* Python truthiness of a decoded value
Truthy(v) ==
  CASE v.t = "str" -> v.s # <<>>
    [] v.t = "num" -> v.s # <<"0">>
    [] v.t = "arr" -> v.kv # <<>>
    [] v.t = "obj" -> v.kv # <<>>
    [] OTHER -> FALSE

HasKey(o, k) == \E i \in 1..Len(o.kv) : o.kv[i].k = k

\* dict lookup; a repeated key keeps its last value
Lookup(o, k) ==
  LET idx == {i \in 1..Len(o.kv) : o.kv[i].k = k}
  IN o.kv[CHOOSE i \in idx : \A j \in idx : j <= i].v

\* dict.get(k): None when the key is missing
DictGet(o, k) == IF HasKey(o, k) THEN Lookup(o, k) ELSE None

----------------------------------------------------------------------------
(* json.loads: a recursive-descent JSON decoder over token sequences.      *)
(* A result is [ok, v, i]: success, the decoded value, the next position.  *)

PFail == [ok |-> FALSE, v |-> None, i |-> 0]
POk(v, i) == [ok |-> TRUE, v |-> v, i |-> i]

At(s, i) == IF i >= 1 /\ i <= Len(s) THEN s[i] ELSE "<EOF>"

RECURSIVE SkipWs(_, _)
SkipWs(s, i) == IF IsSpace(At(s, i)) THEN SkipWs(s, i + 1) ELSE i

\* the body of a string literal, after the opening quote
RECURSIVE ScanString(_, _, _)
ScanString(s, i, acc) ==
  LET c == At(s, i) IN
  CASE c = "<EOF>" -> PFail
    [] c = QUOTE -> POk(Str(acc), i + 1)
    [] c = NL -> PFail
    [] c = BSL ->
         LET e == At(s, i + 1) IN
         IF e \in {QUOTE, BSL} THEN ScanString(s, i + 2, Append(acc, e))
         ELSE IF e = "n" THEN ScanString(s, i + 2, Append(acc, NL))
         ELSE PFail
    [] OTHER -> ScanString(s, i + 1, Append(acc, c))

ParseString(s, i) == IF At(s, i) = QUOTE THEN ScanString(s, i + 1, <<>>) ELSE PFail

RECURSIVE ScanDigits(_, _, _)
ScanDigits(s, i, acc) ==
  IF At(s, i) \in Digits THEN ScanDigits(s, i + 1, Append(acc, At(s, i)))
  ELSE POk(Num(acc), i)

\* an integer literal: "0", or a non-zero digit followed by digits
ParseNumber(s, i) ==
  CASE At(s, i) = "0" -> POk(Num(<<"0">>), i + 1)
    [] At(s, i) = "1" -> ScanDigits(s, i, <<>>)
    [] OTHER -> PFail

RECURSIVE ParseValue(_, _)
RECURSIVE ParseMembers(_, _, _)
RECURSIVE ParseElements(_, _, _)

\* i is at the first token of a value
ParseValue(s, i) ==
  LET c == At(s, i) IN
  CASE c = QUOTE -> ParseString(s, i)
    [] c \in Digits -> ParseNumber(s, i)
    [] c = "null" -> POk(Null, i + 1)
    [] c = LBRACE ->
         LET j == SkipWs(s, i + 1) IN
         IF At(s, j) = RBRACE THEN POk(Obj(<<>>), j + 1)
         ELSE ParseMembers(s, j, <<>>)
    [] c = LBRACK ->
         LET j == SkipWs(s, i + 1) IN
         IF At(s, j) = RBRACK THEN POk(Arr(<<>>), j + 1)
         ELSE ParseElements(s, j, <<>>)
    [] OTHER -> PFail

\* i is at the quote of the next key; acc holds the members decoded so far
ParseMembers(s, i, acc) ==
  LET k == ParseString(s, i) IN
  IF ~k.ok THEN PFail
  ELSE LET c == SkipWs(s, k.i) IN
       IF At(s, c) # COLON THEN PFail
       ELSE LET v == ParseValue(s, SkipWs(s, c + 1)) IN
            IF ~v.ok THEN PFail
            ELSE LET e == SkipWs(s, v.i)
                     acc2 == Append(acc, Pair(k.v.s, v.v))
                 IN CASE At(s, e) = RBRACE -> POk(Obj(acc2), e + 1)
                      [] At(s, e) = COMMA -> ParseMembers(s, SkipWs(s, e + 1), acc2)
                      [] OTHER -> PFail

\* i is at the first token of the next element
ParseElements(s, i, acc) ==
  LET v == ParseValue(s, i) IN
  IF ~v.ok THEN PFail
  ELSE LET e == SkipWs(s, v.i)
           acc2 == Append(acc, Pair(<<>>, v.v))
       IN CASE At(s, e) = RBRACK -> POk(Arr(acc2), e + 1)
            [] At(s, e) = COMMA -> ParseElements(s, SkipWs(s, e + 1), acc2)
            [] OTHER -> PFail

\* json.loads(text): one value, blanks around it, nothing else;
\* ok = FALSE stands for json.JSONDecodeError
json_loads(s) ==
  LET r == ParseValue(s, SkipWs(s, 1)) IN
  IF r.ok /\ SkipWs(s, r.i) = Len(s) + 1 THEN r ELSE PFail

----------------------------------------------------------------------------
(* Reply extractor *)

DefaultTitle == <<"NGMC Query Response">>

\* a match of "reply" (resp. "title") written between double quotes, at p
QuotedAt(s, p, word) == At(s, p) = QUOTE /\ At(s, p + 1) = word /\ At(s, p + 2) = QUOTE

\* Faulty variant of RegexSearch: the last [\s\S]* made lazy, so the match ends
\* at the first closing brace after "title" instead of the last one
RegexSearchLazy(s) ==
  LET N == Len(s)
      Least(S) == CHOOSE i \in S : \A j \in S : i <= j
      EndOf(i) ==
        LET ps == {p \in (i + 1)..N : QuotedAt(s, p, KReply)} IN
        IF ps = {} THEN 0
        ELSE LET qs == {q \in (Least(ps) + 3)..N : QuotedAt(s, q, KTitle)} IN
             IF qs = {} THEN 0
             ELSE LET es == {e \in (Least(qs) + 3)..N : s[e] = RBRACE} IN
                  IF es = {} THEN 0 ELSE Least(es)
      openers == {i \in 1..N : s[i] = LBRACE /\ EndOf(i) # 0}
  IN IF openers = {} THEN <<>>
     ELSE SubSeq(s, Least(openers), EndOf(Least(openers)))

\* re.search(r'\{[\s\S]*"reply"[\s\S]*"title"[\s\S]*\}', resp): the leftmost
\* opening brace that is followed by "reply", later "title", later a closing
\* brace; every [\s\S]* is greedy, so the match runs to the last closing
\* brace of the text.  The result is the matched span, <<>> when none.
RegexSearch(s) ==
  LET N == Len(s)
      closers == {e \in 1..N : s[e] = RBRACE}
      Least(S) == CHOOSE i \in S : \A j \in S : i <= j
      \* the earliest "reply" after i and the earliest "title" after it leave
      \* the most room for what must follow
      Follows(i) ==
        LET ps == {p \in (i + 1)..N : QuotedAt(s, p, KReply)} IN
        /\ ps # {}
        /\ LET qs == {q \in (Least(ps) + 3)..N : QuotedAt(s, q, KTitle)} IN
           /\ qs # {}
           /\ \E e \in closers : e >= Least(qs) + 3
      openers == {i \in 1..N : s[i] = LBRACE /\ Follows(i)}
  IN IF openers = {} THEN <<>>
     ELSE SubSeq(s, Least(openers), CHOOSE e \in closers : \A f \in closers : f <= e)

Returned(v) == [exc |-> "", val |-> v]
Raised(e) == [exc |-> e, val |-> None]

\* the three tiers of extract_json_from_response of Backend/app.py, given
\* what json.loads makes of the whole text (parsed) and of the span the
\* regular expression matches (inner): exc names the exception that leaves
\* the function ("" when it returns), val is the returned dict
extract_tiers(resp, parsed, span, inner) ==
  IF parsed.ok /\ parsed.v.t # "obj"
    THEN Raised("AttributeError")
  ELSE IF parsed.ok /\ Truthy(DictGet(parsed.v, <<KReply>>))
                    /\ Truthy(DictGet(parsed.v, <<KTitle>>))
    THEN Returned(parsed.v)
  ELSE IF span # <<>> /\ inner.ok
    THEN Returned(inner.v)
  ELSE Returned(Obj(<<Pair(<<KReply>>, Str(resp)), Pair(<<KTitle>>, Str(DefaultTitle))>>))

extract_span(resp, parsed, span) == extract_tiers(resp, parsed, span, json_loads(span))

extract_json_from_response(resp) == extract_span(resp, json_loads(resp), RegexSearch(resp))

\* the tiers of extract_json_from_response of Server.py: the bare except
\* clauses also catch the AttributeError of a decoded value that is not an
\* object
extract_tiers_Server(resp, parsed, span, inner) ==
  IF parsed.ok /\ parsed.v.t = "obj" /\ Truthy(DictGet(parsed.v, <<KReply>>))
               /\ Truthy(DictGet(parsed.v, <<KTitle>>))
    THEN Returned(parsed.v)
  ELSE IF span # <<>> /\ inner.ok
    THEN Returned(inner.v)
  ELSE Returned(Obj(<<Pair(<<KReply>>, Str(resp)), Pair(<<KTitle>>, Str(DefaultTitle))>>))

extract_span_Server(resp, parsed, span) ==
  extract_tiers_Server(resp, parsed, span, json_loads(span))

extract_json_from_response_Server(resp) ==
  extract_span_Server(resp, json_loads(resp), RegexSearch(resp))

----------------------------------------------------------------------------
(* Model gateway *)

Apology ==
  <<"I'm sorry, I'm having trouble processing your request right now. Please try again later.">>

\* Faulty variant of call_chatgpt: a failed call yields the empty text instead
\* of the apology
call_chatgpt_empty(out) == IF out.fail THEN <<>> ELSE Strip(out.content)

\* call_chatgpt: one call of the provider; out.fail says that the call raised,
\* out.content is the completion's text otherwise
call_chatgpt(out) == IF out.fail THEN Apology ELSE Strip(out.content)

----------------------------------------------------------------------------
(* Validation *)

MaxMessageChars == 1000
MaxUserNameChars == 100
MaxEmailChars == 200

\* Faulty variant of validate_message: the cap compared with >= instead of >
validate_message_ge(msg) ==
  IF msg = <<>> THEN "Valid message is required"
  ELSE IF TextLen(msg) >= MaxMessageChars THEN "Message too long (max 1000 chars)"
  ELSE ""

\* validate_message: "" stands for None (no error)
validate_message(msg) ==
  IF msg = <<>> THEN "Valid message is required"
  ELSE IF TextLen(msg) > MaxMessageChars THEN "Message too long (max 1000 chars)"
  ELSE ""

Contains(s, tok) == \E i \in 1..Len(s) : s[i] = tok

\* email.split("@")[-1]: what follows the last "@"
AfterLastAt(email) ==
  LET ats == {i \in 1..Len(email) : email[i] = "@"}
  IN IF ats = {} THEN email
     ELSE SubSeq(email, (CHOOSE i \in ats : \A j \in ats : j <= i) + 1, Len(email))

validate_user_data(userName, email, password) ==
  IF Strip(userName) = <<>> THEN "Valid userName is required"
  ELSE IF Strip(email) = <<>> THEN "Valid email is required"
  ELSE IF TextLen(Strip(userName)) > MaxUserNameChars THEN "Username too long (max 100 chars)"
  ELSE IF TextLen(Strip(email)) > MaxEmailChars THEN "Email too long (max 200 chars)"
  ELSE IF ~Contains(email, "@") \/ ~Contains(AfterLastAt(email), ".") THEN "Invalid email format"
  ELSE ""

----------------------------------------------------------------------------
(* The store: the users, chats and conversations collections.  A document's *)
(* _id is its insertion rank; user_id 0 stands for None (no owner).        *)

VARIABLES
  users,           \* users_collection, in insertion order
  chats,           \* chats_collection, in insertion order
  conversations,   \* conversations_collection, in insertion order
  clock,           \* datetime.now(): a logical clock, one tick per reading
  system_prompt,   \* the conversations ENHANCED_SYSTEM_PROMPT quotes, fixed at start-up
  last,            \* the last request handled and its response
  extraction,      \* one application of the reply extractor to a serialized pair
  inflight,        \* the requests being handled concurrently, one per worker
  twin             \* a second deployment of the service on a store of its own

vars == <<users, chats, conversations, clock, system_prompt, last, extraction, inflight, twin>>

UserDoc(id, userName, email, password, t) ==
  [id |-> id, userName |-> userName, email |-> email, password |-> password, created_at |-> t]

ChatDoc(id, title, user_id, t) ==
  [id |-> id, title |-> title, user_id |-> user_id, created_at |-> t]

\* Conversation.__init__ and the document bulk_create writes for it
Conversation(id, chat_id, role, message, t) ==
  [id |-> id, chat_id |-> chat_id, role |-> role, message |-> message, created_at |-> t]

Min(a, b) == IF a <= b THEN a ELSE b

\* User.get_by_email: find_one({'email': email}); 0 when there is none
User_get_by_email(us, email) ==
  LET hits == {i \in 1..Len(us) : us[i].email = email}
  IN IF hits = {} THEN 0 ELSE CHOOSE i \in hits : \A j \in hits : i <= j

\* User.create: insert_one, stamped with one reading of the clock
User_create(us, userName, email, password, clk) ==
  Append(us, UserDoc(Len(us) + 1, userName, email, password, clk + 1))

\* Faulty variant of get_or_create_user: the stored password is replaced by
\* the supplied one whenever they differ, an empty one included
get_or_create_user_overwrite(us, userName, email, password, clk) ==
  LET e == User_get_by_email(us, email) IN
  IF e # 0
    THEN [users |-> [us EXCEPT ![e].userName = userName, ![e].password = password],
          id |-> e, clock |-> clk]
    ELSE [users |-> User_create(us, userName, email, password, clk),
          id |-> Len(us) + 1, clock |-> clk + 1]

\* get_or_create_user: [users, id, clock] after the upsert keyed by email
get_or_create_user(us, userName, email, password, clk) ==
  LET e == User_get_by_email(us, email) IN
  IF e # 0
    THEN LET name2 == IF us[e].userName # userName THEN userName ELSE us[e].userName
             pw2 == IF password # <<>> /\ us[e].password # password
                      THEN password ELSE us[e].password
         IN [users |-> [us EXCEPT ![e].userName = name2, ![e].password = pw2],
             id |-> e, clock |-> clk]
    ELSE [users |-> User_create(us, userName, email, password, clk),
          id |-> Len(us) + 1, clock |-> clk + 1]

\* Chat.create: insert_one with the title and the owner
Chat_create(cs, title, user_id, clk) ==
  Append(cs, ChatDoc(Len(cs) + 1, title, user_id, clk + 1))

\* Faulty variant of Chat.get: a lookup that matches nothing falls back to the
\* first stored chat
Chat_get_first(cs, chat_id) ==
  IF chat_id.wellformed /\ chat_id.n \in 1..Len(cs) THEN chat_id.n
  ELSE IF cs # <<>> THEN 1 ELSE 0

\* Chat.get(chat_id): ObjectId(chat_id) raises for a malformed identifier and
\* find_one returns None for an unknown one; 0 stands for both (the view
\* answers 404 to either)
Chat_get(cs, chat_id) ==
  IF chat_id.wellformed /\ chat_id.n \in 1..Len(cs) THEN chat_id.n ELSE 0

\* Chat.save: update_one $set of title, user_id and created_at from the
\* handler's copy of the chat
Chat_save(cs, chat) ==
  [cs EXCEPT ![chat.id] = [@ EXCEPT !.title = chat.title, !.user_id = chat.user_id,
                                    !.created_at = chat.created_at]]

\* Faulty variant of Conversation.bulk_create: the documents inserted last
\* first
RECURSIVE bulk_create_reversed(_, _)
bulk_create_reversed(cv, docs) ==
  IF docs = <<>> THEN cv
  ELSE bulk_create_reversed(Append(cv, [docs[Len(docs)] EXCEPT !.id = Len(cv) + 1]),
                            SubSeq(docs, 1, Len(docs) - 1))

\* Faulty variant of Conversation.bulk_create: the first document is written
\* over the newest stored turn instead of after it
bulk_create_replace(cv, docs) ==
  IF docs = <<>> \/ cv = <<>> THEN cv \o [k \in 1..Len(docs) |-> [docs[k] EXCEPT !.id = k]]
  ELSE SubSeq(cv, 1, Len(cv) - 1)
         \o [k \in 1..Len(docs) |-> [docs[k] EXCEPT !.id = Len(cv) - 1 + k]]

\* Conversation.bulk_create: insert_many, in the order given
RECURSIVE bulk_create(_, _)
bulk_create(cv, docs) ==
  IF docs = <<>> THEN cv
  ELSE bulk_create(Append(cv, [Head(docs) EXCEPT !.id = Len(cv) + 1]), Tail(docs))

\* the elements of a set of document ranks, highest first: sort('_id', -1)
RECURSIVE SortDesc(_)
SortDesc(S) ==
  IF S = {} THEN <<>>
  ELSE LET m == CHOOSE i \in S : \A j \in S : j <= i
       IN <<m>> \o SortDesc(S \ {m})

\* cursor.limit(n): the first n results; pymongo documents a limit of 0 as
\* "no limit"
Limit(seq, n) == IF n = 0 THEN seq ELSE SubSeq(seq, 1, Min(n, Len(seq)))

\* Conversation.filter_by_chat_last_n: find({'chat_id': chat.id})
\* .sort('_id', -1).limit(n), newest first
filter_by_chat_last_n(cv, chat_id, n) ==
  LET hits == Limit(SortDesc({i \in 1..Len(cv) : cv[i].chat_id = chat_id}), n)
  IN [k \in 1..Len(hits) |-> cv[hits[k]]]

Reverse(seq) == [k \in 1..Len(seq) |-> seq[Len(seq) + 1 - k]]

\* Conversation.all(): every turn, sort('created_at', -1)
RECURSIVE SortByCreatedDesc(_, _)
SortByCreatedDesc(cv, S) ==
  IF S = {} THEN <<>>
  ELSE LET m == CHOOSE i \in S : \A j \in S :
                   cv[j].created_at < cv[i].created_at
                   \/ (cv[j].created_at = cv[i].created_at /\ j <= i)
       IN <<cv[m]>> \o SortByCreatedDesc(cv, S \ {m})

Conversation_all(cv) == SortByCreatedDesc(cv, 1..Len(cv))

\* get_last_5_conversations_as_string: the five newest turns of the whole
\* collection, oldest of them first, each as "[role] message"
get_last_5_conversations_as_string(cv) ==
  LET newest == SubSeq(Conversation_all(cv), 1, Min(5, Len(cv)))
  IN Reverse([k \in 1..Len(newest) |-> [role |-> newest[k].role, message |-> newest[k].message]])

----------------------------------------------------------------------------
(* Requests and responses *)

NoChatId == [wellformed |-> FALSE, n |-> 0]
NoBody == [message |-> <<>>, userName |-> <<>>, email |-> <<>>, password |-> <<>>]
NoPrompt == [snapshot |-> <<>>, query |-> <<>>, instruction |-> ""]

\* the system message: ENHANCED_SYSTEM_PROMPT, the user query and the output
\* instruction (the preamble and the scraped data are fixed text)
SystemMessage(snapshot, query, instruction) ==
  [role |-> "system", content |-> None,
   prompt |-> [snapshot |-> snapshot, query |-> query, instruction |-> instruction]]

ChatMessage(role, content) == [role |-> role, content |-> content, prompt |-> NoPrompt]

\* body.get(...).strip() of the four fields both views read
Decode(body) ==
  [message |-> Strip(body.message), userName |-> Strip(body.userName),
   email |-> Strip(body.email), password |-> Strip(body.password)]

\* a response with no gateway call behind it (an early return)
Early(op, status, error, chat_id, b, userId) ==
  [op |-> op, status |-> status, error |-> error, chat_id |-> chat_id, body |-> b,
   gateway_calls |-> 0, provider_failed |-> FALSE, messages |-> <<>>, gpt_resp |-> <<>>,
   chatId |-> 0, userId |-> userId, reply |-> None, title |-> None]

\* a response after the gateway call; out is what the provider did with it
Late(op, status, error, chat_id, b, out, messages, gpt_resp, chatId, userId, reply, title) ==
  [op |-> op, status |-> status, error |-> error, chat_id |-> chat_id, body |-> b,
   gateway_calls |-> 1, provider_failed |-> out.fail, messages |-> messages, gpt_resp |-> gpt_resp,
   chatId |-> chatId, userId |-> userId, reply |-> reply, title |-> title]

NoRequest == Early("none", 0, "", NoChatId, NoBody, 0)

Outcome(us, cs, cv, clk, resp) ==
  [users |-> us, chats |-> cs, conversations |-> cv, clock |-> clk, last |-> resp]

HistoryWindow == 10

\* Faulty variant of the ownership test: the comparison inverted
NotOwnerInverted(chat_user_id, user_id) == chat_user_id # 0 /\ chat_user_id = user_id

\* the ownership test of continue_chat: the chat has an owner and it is not
\* the caller
NotOwner(chat_user_id, user_id) == chat_user_id # 0 /\ chat_user_id # user_id

\* Faulty variant of the role mapping: the stored role is passed through
ModelRoleStored(role) == role

\* the model role of a stored turn
ModelRole(role) == IF role = "AI" THEN "assistant" ELSE "user"

\* conv_history of continue_chat: the window, oldest first, then the new message
conv_history(last_msgs, user_message) ==
  Append(Reverse([k \in 1..Len(last_msgs) |->
                    ChatMessage(ModelRole(last_msgs[k].role), last_msgs[k].message)]),
         ChatMessage("user", Str(user_message)))

----------------------------------------------------------------------------
(* The views.  Each operator is a whole handler on the store (us, cs, cv),   *)
(* the clock and the start-up prompt, for an authenticated POST whose body   *)
(* is JSON; out is what the provider does with the handler's single call.    *)

\* post_chat from the extracted result on: Chat.create, bulk_create and the
\* response; u is what get_or_create_user returned
post_chat_store(u, cs, cv, b, out, messages, gpt_resp, parsed) ==
  LET title == DictGet(parsed.val, <<KTitle>>)
      reply == DictGet(parsed.val, <<KReply>>)
      cs2 == Chat_create(cs, title, u.id, u.clock)
      chat_id == Len(cs) + 1
      cv2 == bulk_create(cv, <<Conversation(0, chat_id, "user", Str(b.message), u.clock + 2),
                               Conversation(0, chat_id, "AI", reply, u.clock + 3)>>)
      Failed(error, cs3, clk3) ==
        Outcome(u.users, cs3, cv, clk3,
                Late("post_chat", 500, error, NoChatId, b, out, messages, gpt_resp, 0, u.id, None, None))
  IN IF parsed.exc # "" THEN Failed(parsed.exc, cs, u.clock)
     ELSE IF ~HasKey(parsed.val, <<KTitle>>) THEN Failed("KeyError", cs, u.clock)
     ELSE IF ~HasKey(parsed.val, <<KReply>>) THEN Failed("KeyError", cs2, u.clock + 2)
     ELSE Outcome(u.users, cs2, cv2, u.clock + 3,
                  Late("post_chat", 200, "", NoChatId, b, out, messages, gpt_resp,
                       chat_id, u.id, reply, title))

post_chat_view(us, cs, cv, clk, snapshot, body, out) ==
  LET b == Decode(body)
      err == validate_message(b.message)
      user_err == validate_user_data(b.userName, b.email, b.password)
      u == get_or_create_user(us, b.userName, b.email, b.password, clk)
      messages == <<SystemMessage(snapshot, b.message, "Output JSON with reply and title only"),
                    ChatMessage("user", Str(b.message))>>
      gpt_resp == call_chatgpt(out)
  IN IF err # "" THEN Outcome(us, cs, cv, clk, Early("post_chat", 400, err, NoChatId, b, 0))
     ELSE IF user_err # ""
       THEN Outcome(us, cs, cv, clk, Early("post_chat", 400, user_err, NoChatId, b, 0))
     ELSE post_chat_store(u, cs, cv, b, out, messages, gpt_resp,
                          extract_json_from_response(gpt_resp))

\* continue_chat from the extracted result on: chat.save, bulk_create and the
\* response; cs2 is the chats collection after the adoption, chat the
\* handler's copy of chat c
continue_chat_store(u, cs2, cv, chat_id, c, chat, b, out, messages, gpt_resp, parsed) ==
  LET reply == DictGet(parsed.val, <<KReply>>)
      cs3 == Chat_save(cs2, chat)
      cv2 == bulk_create(cv, <<Conversation(0, c, "user", Str(b.message), u.clock + 1),
                               Conversation(0, c, "AI", reply, u.clock + 2)>>)
      Failed(error, cs4, clk4) ==
        Outcome(u.users, cs4, cv, clk4,
                Late("continue_chat", 500, error, chat_id, b, out, messages, gpt_resp, 0, u.id, None, None))
  IN IF parsed.exc # "" THEN Failed(parsed.exc, cs2, u.clock)
     ELSE IF ~HasKey(parsed.val, <<KReply>>) THEN Failed("KeyError", cs3, u.clock + 1)
     ELSE Outcome(u.users, cs3, cv2, u.clock + 2,
                  Late("continue_chat", 200, "", chat_id, b, out, messages, gpt_resp,
                       c, u.id, reply, None))

continue_chat_view(us, cs, cv, clk, snapshot, chat_id, body, out) ==
  LET b == Decode(body)
      err == validate_message(b.message)
      user_err == validate_user_data(b.userName, b.email, b.password)
      c == Chat_get(cs, chat_id)
      u == get_or_create_user(us, b.userName, b.email, b.password, clk)
      \* the handler's copy of the chat, with the caller attached when the
      \* chat has no owner
      chat == IF cs[c].user_id = 0 THEN [cs[c] EXCEPT !.user_id = u.id] ELSE cs[c]
      cs2 == IF cs[c].user_id = 0 THEN Chat_save(cs, chat) ELSE cs
      last_msgs == filter_by_chat_last_n(cv, c, HistoryWindow)
      messages == <<SystemMessage(snapshot, b.message, "Output JSON with reply only")>>
                    \o conv_history(last_msgs, b.message)
      gpt_resp == call_chatgpt(out)
  IN IF err # "" THEN Outcome(us, cs, cv, clk, Early("continue_chat", 400, err, chat_id, b, 0))
     ELSE IF user_err # ""
       THEN Outcome(us, cs, cv, clk, Early("continue_chat", 400, user_err, chat_id, b, 0))
     ELSE IF c = 0
       THEN Outcome(us, cs, cv, clk, Early("continue_chat", 404, "Chat not found", chat_id, b, 0))
     ELSE IF NotOwner(cs[c].user_id, u.id)
       THEN Outcome(u.users, cs, cv, u.clock,
                    Early("continue_chat", 403, "Unauthorized to access this chat", chat_id, b, u.id))
     ELSE continue_chat_store(u, cs2, cv, chat_id, c, chat, b, out, messages, gpt_resp,
                              extract_json_from_response(gpt_resp))

----------------------------------------------------------------------------
(* Inputs *)

MaxTime == 5
MaxLegacyPairs == 6

\* message fields of request bodies: empty, blank, short, of 1000 characters
\* followed by a blank, of 1001 characters
Messages == {<<>>, <<WS>>, <<"hi">>, <<"w1000", WS>>, <<"w1000", "x">>}

EmailA == <<"asha", "@", "ngmc", ".", "org">>
EmailB == <<"ravi", "@", "ngmc", ".", "org">>

CallerA == [userName |-> <<"Asha">>, email |-> EmailA, password |-> <<"pa">>]
CallerB == [userName |-> <<"Ravi">>, email |-> EmailB, password |-> <<"pb">>]
\* no "@" in the email: rejected by validate_user_data
CallerBad == [userName |-> <<"Asha">>, email |-> <<"asha">>, password |-> <<"pa">>]
Callers == {CallerA, CallerB, CallerBad}

Body(m, c) ==
  [message |-> m, userName |-> c.userName, email |-> c.email, password |-> c.password]

\* the request bodies: every message from one caller, the short message from
\* every caller
Bodies == {Body(m, CallerA) : m \in Messages} \cup {Body(<<"hi">>, c) : c \in Callers}

\* {"reply": "See link", "title": "Exam Info"}
TextOk ==
  <<LBRACE, QUOTE, KReply, QUOTE, COLON, WS, QUOTE, "See link", QUOTE, COMMA, WS,
    QUOTE, KTitle, QUOTE, COLON, WS, QUOTE, "Exam Info", QUOTE, RBRACE>>
\* the same object wrapped in prose, with a trailing line break
TextWrapped == <<"Sure!", WS>> \o TextOk \o <<WS, "Done.", NL>>
\* {"reply":"See link"}
TextReplyOnly == <<LBRACE, QUOTE, KReply, QUOTE, COLON, QUOTE, "See link", QUOTE, RBRACE>>
\* {"title":"Exam Info"}
TextTitleOnly == <<LBRACE, QUOTE, KTitle, QUOTE, COLON, QUOTE, "Exam Info", QUOTE, RBRACE>>
\* 1
TextNumber == <<"1">>
\* ["See link"]
TextArray == <<LBRACK, QUOTE, "See link", QUOTE, RBRACK>>
\* "See link"
TextString == <<QUOTE, "See link", QUOTE>>
\* {"data": {"reply": "See link", "title": "Exam Info"}}
TextNested == <<LBRACE, QUOTE, "data", QUOTE, COLON, WS>> \o TextOk \o <<RBRACE>>
\* {"a":"reply","title":"Exam Info"}
TextNoReplyKey ==
  <<LBRACE, QUOTE, "a", QUOTE, COLON, QUOTE, KReply, QUOTE, COMMA,
    QUOTE, KTitle, QUOTE, COLON, QUOTE, "Exam Info", QUOTE, RBRACE>>
TextProse == <<"just", WS, "plain", WS, "prose">>

GatewayTexts == {TextOk, TextReplyOnly, TextNumber, TextNested, TextNoReplyKey}

\* what the provider does with one call: it raises, or it completes with a text
ProviderError == [fail |-> TRUE, content |-> <<>>]
GatewayOutcomes == {ProviderError} \cup {[fail |-> FALSE, content |-> t] : t \in GatewayTexts}

\* chat identifiers of requests: every stored chat, one unknown, one malformed
ChatIds(cs) == {[wellformed |-> TRUE, n |-> n] : n \in 1..(Len(cs) + 1)} \cup {NoChatId}

\* a store written by an earlier version of the service: one chat with no
\* owner and k user/AI pairs
LegacyChats(k) == IF k = 0 THEN <<>> ELSE <<ChatDoc(1, Str(<<"Old chat">>), 0, 0 - (2 * k) - 1)>>
LegacyConversations(k) ==
  [i \in 1..(2 * k) |->
     Conversation(i, 1, IF i % 2 = 1 THEN "user" ELSE "AI",
                  Str(IF i % 2 = 1 THEN <<"old question">> ELSE <<"old answer">>),
                  i - (2 * k) - 1)]
LegacySizes == {0, MaxLegacyPairs}

----------------------------------------------------------------------------
(* The state machine *)

\* no request is being handled concurrently
NoWorkers == <<>>

\* no second deployment
NoTwin ==
  [users |-> <<>>, chats |-> <<>>, conversations |-> <<>>, clock |-> 0,
   system_prompt |-> <<>>, last |-> NoRequest]

\* no extraction under way
NoExtraction ==
  [phase |-> "idle", reply |-> <<>>, title |-> <<>>, text |-> <<>>,
   result |-> Returned(None), result_server |-> Returned(None)]

Init ==
  /\ users = <<>>
  /\ \E k \in LegacySizes :
       /\ chats = LegacyChats(k)
       /\ conversations = LegacyConversations(k)
  /\ clock = 0
  /\ system_prompt = get_last_5_conversations_as_string(conversations)
  /\ last = NoRequest
  /\ extraction = NoExtraction
  /\ inflight = NoWorkers
  /\ twin = NoTwin

\* the provider's behaviour is an input of a step only when the handler calls it
Apply(o, out) ==
  /\ o.last.gateway_calls = 0 => out = ProviderError
  /\ users' = o.users
  /\ chats' = o.chats
  /\ conversations' = o.conversations
  /\ clock' = o.clock
  /\ last' = o.last
  /\ UNCHANGED <<system_prompt, extraction, inflight, twin>>

post_chat(body, out) ==
  /\ clock < MaxTime
  /\ \E o \in {post_chat_view(users, chats, conversations, clock, system_prompt, body, out)} :
       Apply(o, out)

continue_chat(chat_id, body, out) ==
  /\ clock < MaxTime
  /\ \E o \in {continue_chat_view(users, chats, conversations, clock, system_prompt,
                                  chat_id, body, out)} :
       Apply(o, out)

Next ==
  \/ \E body \in Bodies, out \in GatewayOutcomes : post_chat(body, out)
  \/ \E chat_id \in ChatIds(chats), body \in Bodies, out \in GatewayOutcomes :
       continue_chat(chat_id, body, out)

Spec == Init /\ [][Next]_vars

----------------------------------------------------------------------------
(* The reply extractor on its own: a pair of strings is drawn, serialized   *)
(* as JSON and handed to the extractor of either source file.               *)

MaxReplyLen == 2
MaxTitleLen == 2

\* the characters strings are drawn from: those a serializer escapes, a
\* closing brace, the letter that follows the backslash of an escaped line
\* break, and the word "title"
StringTokens == {QUOTE, BSL, NL, RBRACE, "n", KTitle}
Strings(n) == UNION {[1..k -> StringTokens] : k \in 0..n}

\* a string literal as json.dumps writes it: the quote and the backslash
\* escaped with a backslash, the line break written \n
RECURSIVE EscapeText(_)
EscapeText(s) ==
  IF s = <<>> THEN <<>>
  ELSE (CASE Head(s) = QUOTE -> <<BSL, QUOTE>>
          [] Head(s) = BSL -> <<BSL, BSL>>
          [] Head(s) = NL -> <<BSL, "n">>
          [] OTHER -> <<Head(s)>>) \o EscapeText(Tail(s))

json_dumps_str(s) == <<QUOTE>> \o EscapeText(s) \o <<QUOTE>>

\* json.dumps({"reply": x, "title": y}) with the default separators
json_dumps_pair(x, y) ==
  <<LBRACE>> \o json_dumps_str(<<KReply>>) \o <<COLON, WS>> \o json_dumps_str(x)
    \o <<COMMA, WS>> \o json_dumps_str(<<KTitle>>) \o <<COLON, WS>> \o json_dumps_str(y)
    \o <<RBRACE>>

InitExtract ==
  /\ users = <<>>
  /\ chats = <<>>
  /\ conversations = <<>>
  /\ clock = 0
  /\ system_prompt = <<>>
  /\ last = NoRequest
  /\ inflight = NoWorkers
  /\ twin = NoTwin
  /\ \E x \in Strings(MaxReplyLen), y \in Strings(MaxTitleLen) :
       extraction = [NoExtraction EXCEPT !.phase = "drawn", !.reply = x, !.title = y]

Serialize ==
  /\ extraction.phase = "drawn"
  /\ extraction' = [extraction EXCEPT !.phase = "serialized",
                                      !.text = json_dumps_pair(extraction.reply, extraction.title)]
  /\ UNCHANGED <<users, chats, conversations, clock, system_prompt, last, inflight, twin>>

Extract ==
  /\ extraction.phase = "serialized"
  /\ extraction' = [extraction EXCEPT
                      !.phase = "extracted",
                      !.result = extract_json_from_response(extraction.text),
                      !.result_server = extract_json_from_response_Server(extraction.text)]
  /\ UNCHANGED <<users, chats, conversations, clock, system_prompt, last, inflight, twin>>

NextExtract == Serialize \/ Extract

SpecExtract == InitExtract /\ [][NextExtract]_vars

----------------------------------------------------------------------------
(* The views of Backend/app.py under requests that carry one email with     *)
(* several display names and credentials.                                   *)

CallerRenamed == [CallerA EXCEPT !.userName = <<"Asha K">>]
CallerNewPassword == [CallerA EXCEPT !.password = <<"pa2">>]
\* no password field in the body: body.get('password','') is empty
CallerNoPassword == [CallerA EXCEPT !.password = <<>>]

UserBodies ==
  {Body(<<"hi">>, c) : c \in {CallerA, CallerRenamed, CallerNewPassword, CallerNoPassword, CallerB}}

UserOutcomes == {ProviderError, [fail |-> FALSE, content |-> TextOk]}

MaxUserTime == 7

InitUsers ==
  /\ users = <<>>
  /\ chats = <<>>
  /\ conversations = <<>>
  /\ clock = 0
  /\ system_prompt = <<>>
  /\ last = NoRequest
  /\ extraction = NoExtraction
  /\ inflight = NoWorkers
  /\ twin = NoTwin

\* the two views, served while the clock is below MaxUserTime
post_chat_users(body, out) ==
  /\ clock < MaxUserTime
  /\ \E o \in {post_chat_view(users, chats, conversations, clock, system_prompt, body, out)} :
       Apply(o, out)

continue_chat_users(chat_id, body, out) ==
  /\ clock < MaxUserTime
  /\ \E o \in {continue_chat_view(users, chats, conversations, clock, system_prompt,
                                  chat_id, body, out)} :
       Apply(o, out)

NextUsers ==
  \/ \E body \in UserBodies, out \in UserOutcomes : post_chat_users(body, out)
  \/ \E chat_id \in ChatIds(chats), body \in UserBodies, out \in UserOutcomes :
       continue_chat_users(chat_id, body, out)

SpecUsers == InitUsers /\ [][NextUsers]_vars

----------------------------------------------------------------------------
(* Two deployments of Backend/app.py, each started on a store of its own,   *)
(* that receive the same requests.  The two stores hold the same chats and  *)
(* the same turns of chat 1; they may differ in the turns of chat 2.  Each  *)
(* deployment computes ENHANCED_SYSTEM_PROMPT from its store when it starts. *)

MaxOtherPairs == 2

\* the turns of chat 1, written first
FirstChatTurns ==
  <<Conversation(1, 1, "user", Str(<<"old question">>), 0 - 20),
    Conversation(2, 1, "AI", Str(<<"old answer">>), 0 - 19)>>

\* k user/AI pairs of chat 2, written after those of chat 1
OtherChatTurns(k) ==
  [i \in 1..(2 * k) |->
     Conversation(i + 2, 2, IF i % 2 = 1 THEN "user" ELSE "AI",
                  Str(IF i % 2 = 1 THEN <<"fees?">> ELSE <<"see the fee list">>),
                  i - 10)]

TwoChats == <<ChatDoc(1, Str(<<"Old chat">>), 0, 0 - 21), ChatDoc(2, Str(<<"Fees">>), 0, 0 - 11)>>

TwinBodies == {Body(m, CallerA) : m \in {<<"hi">>, <<"yo">>}}

InitTwin ==
  /\ users = <<>>
  /\ chats = TwoChats
  /\ \E k \in 0..MaxOtherPairs : conversations = FirstChatTurns \o OtherChatTurns(k)
  /\ clock = 0
  /\ system_prompt = get_last_5_conversations_as_string(conversations)
  /\ last = NoRequest
  /\ extraction = NoExtraction
  /\ inflight = NoWorkers
  /\ \E k \in 0..MaxOtherPairs :
       twin = [NoTwin EXCEPT
                 !.chats = TwoChats,
                 !.conversations = FirstChatTurns \o OtherChatTurns(k),
                 !.system_prompt = get_last_5_conversations_as_string(FirstChatTurns \o OtherChatTurns(k))]

\* both deployments have served the request
ApplyTwin(o, o2, out) ==
  /\ o.last.gateway_calls = 0 => out = ProviderError
  /\ users' = o.users
  /\ chats' = o.chats
  /\ conversations' = o.conversations
  /\ clock' = o.clock
  /\ last' = o.last
  /\ twin' = [twin EXCEPT !.users = o2.users, !.chats = o2.chats,
                          !.conversations = o2.conversations, !.clock = o2.clock,
                          !.last = o2.last]
  /\ UNCHANGED <<system_prompt, extraction, inflight>>

post_chat_twin(body, out) ==
  /\ clock < MaxTime
  /\ \E o \in {post_chat_view(users, chats, conversations, clock, system_prompt, body, out)},
        o2 \in {post_chat_view(twin.users, twin.chats, twin.conversations, twin.clock,
                               twin.system_prompt, body, out)} :
       ApplyTwin(o, o2, out)

continue_chat_twin(chat_id, body, out) ==
  /\ clock < MaxTime
  /\ \E o \in {continue_chat_view(users, chats, conversations, clock, system_prompt,
                                  chat_id, body, out)},
        o2 \in {continue_chat_view(twin.users, twin.chats, twin.conversations, twin.clock,
                                   twin.system_prompt, chat_id, body, out)} :
       ApplyTwin(o, o2, out)

NextTwin ==
  \/ \E body \in TwinBodies, out \in UserOutcomes : post_chat_twin(body, out)
  \/ \E chat_id \in ChatIds(chats), body \in TwinBodies, out \in UserOutcomes :
       continue_chat_twin(chat_id, body, out)

SpecTwin == InitTwin /\ [][NextTwin]_vars

----------------------------------------------------------------------------
(* The views of Server.py: the same two operations over the Django models  *)
(* Chat and Conversation, with no users and no owners.  The chats and      *)
(* conversations collections stand for the two tables; user_id stays 0.    *)

\* post_chat of Server.py
post_chat_view_Server(cs, cv, clk, body, out) ==
  LET b == Decode(body)
      err == validate_message(b.message)
      messages == <<SystemMessage(<<>>, b.message, "Output JSON with reply and title only"),
                    ChatMessage("user", Str(b.message))>>
      gpt_resp == call_chatgpt(out)
      parsed == extract_json_from_response_Server(gpt_resp)
      title == DictGet(parsed.val, <<KTitle>>)
      reply == DictGet(parsed.val, <<KReply>>)
      chat_id == Len(cs) + 1
      cs2 == Chat_create(cs, title, 0, clk)
      cv2 == bulk_create(cv, <<Conversation(0, chat_id, "user", Str(b.message), clk + 2),
                               Conversation(0, chat_id, "AI", reply, clk + 3)>>)
      Failed(cs3, clk3) ==
        Outcome(<<>>, cs3, cv, clk3,
                Late("post_chat", 500, "KeyError", NoChatId, b, out, messages, gpt_resp, 0, 0, None, None))
  IN IF err # "" THEN Outcome(<<>>, cs, cv, clk, Early("post_chat", 400, err, NoChatId, b, 0))
     ELSE IF ~HasKey(parsed.val, <<KTitle>>) THEN Failed(cs, clk)
     ELSE IF ~HasKey(parsed.val, <<KReply>>) THEN Failed(cs2, clk + 2)
     ELSE Outcome(<<>>, cs2, cv2, clk + 3,
                  Late("post_chat", 200, "", NoChatId, b, out, messages, gpt_resp,
                       chat_id, 0, reply, title))

\* continue_chat of Server.py: chat.title = parsed['title']; chat.save()
\* before the pair is created
continue_chat_view_Server(cs, cv, clk, chat_id, body, out) ==
  LET b == Decode(body)
      err == validate_message(b.message)
      c == Chat_get(cs, chat_id)
      last_msgs == filter_by_chat_last_n(cv, c, HistoryWindow)
      messages == <<SystemMessage(<<>>, b.message, "Output JSON with reply and title only")>>
                    \o conv_history(last_msgs, b.message)
      gpt_resp == call_chatgpt(out)
      parsed == extract_json_from_response_Server(gpt_resp)
      title == DictGet(parsed.val, <<KTitle>>)
      reply == DictGet(parsed.val, <<KReply>>)
      cs2 == Chat_save(cs, [cs[c] EXCEPT !.title = title])
      cv2 == bulk_create(cv, <<Conversation(0, c, "user", Str(b.message), clk + 1),
                               Conversation(0, c, "AI", reply, clk + 2)>>)
      Failed(cs3, clk3) ==
        Outcome(<<>>, cs3, cv, clk3,
                Late("continue_chat", 500, "KeyError", chat_id, b, out, messages, gpt_resp, 0, 0, None, None))
  IN IF err # "" THEN Outcome(<<>>, cs, cv, clk, Early("continue_chat", 400, err, chat_id, b, 0))
     ELSE IF c = 0
       THEN Outcome(<<>>, cs, cv, clk, Early("continue_chat", 404, "Chat not found", chat_id, b, 0))
     ELSE IF ~HasKey(parsed.val, <<KTitle>>) THEN Failed(cs, clk)
     ELSE IF ~HasKey(parsed.val, <<KReply>>) THEN Failed(cs2, clk + 1)
     ELSE Outcome(<<>>, cs2, cv2, clk + 2,
                  Late("continue_chat", 200, "", chat_id, b, out, messages, gpt_resp,
                       c, 0, reply, title))

\* the request bodies of Server.py carry a message only
Bodies_Server == {[NoBody EXCEPT !.message = m] : m \in Messages}

InitServer ==
  /\ users = <<>>
  /\ \E k \in LegacySizes :
       /\ chats = LegacyChats(k)
       /\ conversations = LegacyConversations(k)
  /\ clock = 0
  /\ system_prompt = <<>>
  /\ last = NoRequest
  /\ extraction = NoExtraction
  /\ inflight = NoWorkers
  /\ twin = NoTwin

post_chat_Server(body, out) ==
  /\ clock < MaxTime
  /\ \E o \in {post_chat_view_Server(chats, conversations, clock, body, out)} : Apply(o, out)

continue_chat_Server(chat_id, body, out) ==
  /\ clock < MaxTime
  /\ \E o \in {continue_chat_view_Server(chats, conversations, clock, chat_id, body, out)} :
       Apply(o, out)

NextServer ==
  \/ \E body \in Bodies_Server, out \in GatewayOutcomes : post_chat_Server(body, out)
  \/ \E chat_id \in ChatIds(chats), body \in Bodies_Server, out \in GatewayOutcomes :
       continue_chat_Server(chat_id, body, out)

SpecServer == InitServer /\ [][NextServer]_vars

----------------------------------------------------------------------------
(* The views under concurrency.  The server handles requests on several     *)
(* workers at once; nothing in the views takes a lock or opens a            *)
(* transaction, so the steps of two handlers interleave at every access to  *)
(* a collection and at every reading of the clock.  A worker's record holds *)
(* the handler's local variables.  insert_many is not atomic across the     *)
(* documents it is given: each document is written on its own.              *)

\* two requests at a time
Workers == {1, 2}

\* the user/AI pairs of the chat the store holds at start-up
MaxRacePairs == 1

NoChat == ChatDoc(0, None, 0, 0)
NoUser == UserDoc(0, <<>>, <<>>, <<>>, 0)

\* a worker with no request
Idle ==
  [pc |-> "idle", op |-> "none", chat_id |-> NoChatId, body |-> NoBody,
   chat |-> NoChat, existing_user |-> NoUser, user_id |-> 0, last_msgs |-> <<>>,
   parsed |-> Returned(None), docs |-> <<>>, status |-> 0, error |-> ""]

\* the handler returns a response
Answer(r, status, error) == [r EXCEPT !.pc = "done", !.status = status, !.error = error]

\* the bodies of concurrent requests: one per caller, told apart by the message
RaceBodies == {Body(<<"hi">>, CallerA), Body(<<"yo">>, CallerB)}

\* the provider answers every concurrent request with the well-formed object
RaceOutcomes == {[fail |-> FALSE, content |-> TextOk]}

InitRace ==
  /\ users = <<>>
  /\ chats = LegacyChats(MaxRacePairs)
  /\ conversations = LegacyConversations(MaxRacePairs)
  /\ clock = 0
  /\ system_prompt = get_last_5_conversations_as_string(conversations)
  /\ last = NoRequest
  /\ extraction = NoExtraction
  /\ inflight = [w \in Workers |-> Idle]
  /\ twin = NoTwin

\* a worker takes a request: the body is decoded and validated
Receive(w, op, chat_id, body) ==
  /\ inflight[w].pc = "idle"
  /\ LET b == Decode(body)
         err == validate_message(b.message)
         user_err == validate_user_data(b.userName, b.email, b.password)
         r == [inflight[w] EXCEPT !.op = op, !.chat_id = chat_id, !.body = b]
     IN inflight' = [inflight EXCEPT ![w] =
          IF err # "" THEN Answer(r, 400, err)
          ELSE IF user_err # "" THEN Answer(r, 400, user_err)
          ELSE [r EXCEPT !.pc = IF op = "continue_chat" THEN "Chat_get" ELSE "get_by_email"]]
  /\ UNCHANGED <<users, chats, conversations, clock, system_prompt, last, extraction, twin>>

\* continue_chat: chat = Chat.get(chat_id), the handler's copy of the chat
Step_Chat_get(w) ==
  /\ inflight[w].pc = "Chat_get"
  /\ LET r == inflight[w]
         c == Chat_get(chats, r.chat_id)
     IN inflight' = [inflight EXCEPT ![w] =
          IF c = 0 THEN Answer(r, 404, "Chat not found")
          ELSE [r EXCEPT !.pc = "get_by_email", !.chat = chats[c]]]
  /\ UNCHANGED <<users, chats, conversations, clock, system_prompt, last, extraction, twin>>

\* get_or_create_user: existing_user = User.get_by_email(email)
Step_get_by_email(w) ==
  /\ inflight[w].pc = "get_by_email"
  /\ LET r == inflight[w]
         e == User_get_by_email(users, r.body.email)
     IN inflight' = [inflight EXCEPT ![w] =
          [r EXCEPT !.pc = "upsert", !.existing_user = IF e = 0 THEN NoUser ELSE users[e]]]
  /\ UNCHANGED <<users, chats, conversations, clock, system_prompt, last, extraction, twin>>

\* get_or_create_user: update_one of the fields that differ from the copy
\* read, or User.create; the unique index on email refuses a second insert
\* for the same email and the view answers 500
Step_upsert(w) ==
  /\ inflight[w].pc = "upsert"
  /\ LET r == inflight[w]
         b == r.body
         e == r.existing_user
         next == IF r.op = "continue_chat" THEN "owner" ELSE "gateway"
     IN IF e.id # 0
          THEN /\ users' = [users EXCEPT
                              ![e.id].userName = IF e.userName # b.userName THEN b.userName ELSE @,
                              ![e.id].password = IF b.password # <<>> /\ e.password # b.password
                                                   THEN b.password ELSE @]
               /\ clock' = clock
               /\ inflight' = [inflight EXCEPT ![w] = [r EXCEPT !.pc = next, !.user_id = e.id]]
          ELSE IF User_get_by_email(users, b.email) # 0
            THEN /\ users' = users
                 /\ clock' = clock + 1
                 /\ inflight' = [inflight EXCEPT ![w] = Answer(r, 500, "Failed to create/get user")]
            ELSE /\ users' = User_create(users, b.userName, b.email, b.password, clock)
                 /\ clock' = clock + 1
                 /\ inflight' = [inflight EXCEPT ![w] =
                                   [r EXCEPT !.pc = next, !.user_id = Len(users) + 1]]
  /\ UNCHANGED <<chats, conversations, system_prompt, last, extraction, twin>>

\* continue_chat: the ownership test on the handler's copy, then the adoption
\* of a chat the copy shows without an owner (chat.user_id = user.id;
\* chat.save())
Step_owner(w) ==
  /\ inflight[w].pc = "owner"
  /\ LET r == inflight[w]
         adopted == [r.chat EXCEPT !.user_id = r.user_id]
     IN IF NotOwner(r.chat.user_id, r.user_id)
          THEN /\ inflight' = [inflight EXCEPT ![w] =
                                 Answer(r, 403, "Unauthorized to access this chat")]
               /\ chats' = chats
          ELSE IF r.chat.user_id = 0
            THEN /\ inflight' = [inflight EXCEPT ![w] = [r EXCEPT !.pc = "history", !.chat = adopted]]
                 /\ chats' = Chat_save(chats, adopted)
            ELSE /\ inflight' = [inflight EXCEPT ![w] = [r EXCEPT !.pc = "history"]]
                 /\ chats' = chats
  /\ UNCHANGED <<users, conversations, clock, system_prompt, last, extraction, twin>>

\* continue_chat: last_msgs = Conversation.filter_by_chat_last_n(chat, 10)
Step_history(w) ==
  /\ inflight[w].pc = "history"
  /\ inflight' = [inflight EXCEPT ![w] =
       [@ EXCEPT !.pc = "gateway",
                 !.last_msgs = filter_by_chat_last_n(conversations, inflight[w].chat.id,
                                                     HistoryWindow)]]
  /\ UNCHANGED <<users, chats, conversations, clock, system_prompt, last, extraction, twin>>

\* the gateway call and the extraction; post_chat reads parsed['title'] next
Step_gateway(w, out) ==
  /\ inflight[w].pc = "gateway"
  /\ LET r == inflight[w]
         parsed == extract_json_from_response(call_chatgpt(out))
     IN inflight' = [inflight EXCEPT ![w] =
          IF parsed.exc # "" THEN Answer(r, 500, parsed.exc)
          ELSE IF r.op = "post_chat" /\ ~HasKey(parsed.val, <<KTitle>>) THEN Answer(r, 500, "KeyError")
          ELSE [r EXCEPT !.pc = IF r.op = "continue_chat" THEN "save" ELSE "Chat_create",
                         !.parsed = parsed]]
  /\ UNCHANGED <<users, chats, conversations, clock, system_prompt, last, extraction, twin>>

\* post_chat: chat = Chat.create(title=parsed['title'], user_id=user.id)
Step_Chat_create(w) ==
  /\ inflight[w].pc = "Chat_create"
  /\ chats' = Chat_create(chats, DictGet(inflight[w].parsed.val, <<KTitle>>),
                          inflight[w].user_id, clock)
  /\ clock' = clock + 1
  /\ inflight' = [inflight EXCEPT ![w] = [@ EXCEPT !.pc = "stamp", !.chat = chats'[Len(chats')]]]
  /\ UNCHANGED <<users, conversations, system_prompt, last, extraction, twin>>

\* continue_chat: chat.save() after the extraction, from the handler's copy
Step_chat_save(w) ==
  /\ inflight[w].pc = "save"
  /\ chats' = Chat_save(chats, inflight[w].chat)
  /\ inflight' = [inflight EXCEPT ![w] = [@ EXCEPT !.pc = "stamp"]]
  /\ UNCHANGED <<users, conversations, clock, system_prompt, last, extraction, twin>>

\* the next Conversation object of the list handed to bulk_create is built:
\* the user turn, then the AI turn with parsed['reply']; __init__ stamps it
\* with datetime.now()
Step_stamp(w) ==
  /\ inflight[w].pc = "stamp"
  /\ LET r == inflight[w]
         user_turn == Conversation(0, r.chat.id, "user", Str(r.body.message), clock + 1)
         ai_turn == Conversation(0, r.chat.id, "AI", DictGet(r.parsed.val, <<KReply>>), clock + 1)
     IN IF r.docs = <<>>
          THEN /\ inflight' = [inflight EXCEPT ![w] = [r EXCEPT !.docs = <<user_turn>>]]
               /\ clock' = clock + 1
          ELSE IF ~HasKey(r.parsed.val, <<KReply>>)
            THEN /\ inflight' = [inflight EXCEPT ![w] = Answer(r, 500, "KeyError")]
                 /\ clock' = clock
            ELSE /\ inflight' = [inflight EXCEPT ![w] =
                                   [r EXCEPT !.pc = "insert", !.docs = Append(@, ai_turn)]]
                 /\ clock' = clock + 1
  /\ UNCHANGED <<users, chats, conversations, system_prompt, last, extraction, twin>>

\* Conversation.bulk_create: insert_many writes the next document of the
\* list; after the last one the view returns its response
Step_insert(w) ==
  /\ inflight[w].pc = "insert"
  /\ conversations' = bulk_create(conversations, <<Head(inflight[w].docs)>>)
  /\ inflight' = [inflight EXCEPT ![w] =
       IF Len(@.docs) = 1 THEN Answer([@ EXCEPT !.docs = <<>>], 200, "")
       ELSE [@ EXCEPT !.docs = Tail(@)]]
  /\ UNCHANGED <<users, chats, clock, system_prompt, last, extraction, twin>>

NextRace ==
  \E w \in Workers :
    \/ \E body \in RaceBodies : Receive(w, "post_chat", NoChatId, body)
    \/ \E chat_id \in ChatIds(chats), body \in RaceBodies : Receive(w, "continue_chat", chat_id, body)
    \/ Step_Chat_get(w)
    \/ Step_get_by_email(w)
    \/ Step_upsert(w)
    \/ Step_owner(w)
    \/ Step_history(w)
    \/ \E out \in RaceOutcomes : Step_gateway(w, out)
    \/ Step_Chat_create(w)
    \/ Step_chat_save(w)
    \/ Step_stamp(w)
    \/ Step_insert(w)

SpecRace == InitRace /\ [][NextRace]_vars

----------------------------------------------------------------------------
(* Properties.  A step of Spec is one request; last' describes the request  *)
(* the step serves and its response, the unprimed variables the store it    *)
(* found.                                                                   *)

\* the turns stored for chat c, in insertion order
TurnsOf(cv, c) == SelectSeq(cv, LAMBDA d : d.chat_id = c)

\* the body carries a caller identity: its user data pass validate_user_data
HasIdentity(b) == validate_user_data(b.userName, b.email, b.password) = ""

MessageErrors == {"Valid message is required", "Message too long (max 1000 chars)"}

\* the two turns a request appends for chat c: the user's message, then the reply
IsPair(pair, c, message, reply) ==
  /\ Len(pair) = 2
  /\ pair[1].chat_id = c /\ pair[1].role = "user" /\ pair[1].message = Str(message)
  /\ pair[2].chat_id = c /\ pair[2].role = "AI" /\ pair[2].message = reply
  /\ pair[1].id + 1 = pair[2].id

\* the conversations collection after the step is the one before it plus two turns
AppendsPair(c, message, reply) ==
  /\ Len(conversations') = Len(conversations) + 2
  /\ SubSeq(conversations', 1, Len(conversations)) = conversations
  /\ IsPair(SubSeq(conversations', Len(conversations) + 1, Len(conversations) + 2),
            c, message, reply)

\* the chats collection after the step is the one before it plus one chat
CreatesChat ==
  /\ Len(chats') = Len(chats) + 1
  /\ SubSeq(chats', 1, Len(chats)) = chats

\* C1: a ContinueChat request on a chat whose recorded owner is not the
\* caller never succeeds, calls no gateway and leaves the stored turns of the
\* chat (of every chat) as they were, after any sequence of earlier requests;
\* it is answered 403 Forbidden whenever its message passes the validation
\* the view runs first (a rejected message is answered 400 before the chat is
\* looked at).
C1_ForeignContinueForbidden ==
  [][ \A c \in 1..Len(chats) :
        ( /\ last'.op = "continue_chat"
          /\ Chat_get(chats, last'.chat_id) = c
          /\ HasIdentity(last'.body)
          /\ chats[c].user_id # 0
          /\ chats[c].user_id # User_get_by_email(users, last'.body.email) )
        => /\ last'.status \in {400, 403}
           /\ validate_message(last'.body.message) = "" => last'.status = 403
           /\ last'.gateway_calls = 0
           /\ conversations' = conversations
           /\ chats'[c] = chats[c] ]_vars

\* a caller was answered 403 on a chat that has turns and another owner
C1_Witness ==
  /\ last.op = "continue_chat"
  /\ last.status = 403
  /\ Chat_get(chats, last.chat_id) # 0
  /\ chats[Chat_get(chats, last.chat_id)].user_id \notin {0, last.userId}
  /\ TurnsOf(conversations, Chat_get(chats, last.chat_id)) # <<>>

\* C2: a ContinueChat request with a valid message on a chat without a
\* recorded owner succeeds and stores the caller as the owner; and a
\* ContinueChat request with a valid message on a chat whose owner is another
\* identity is answered 403.
C2_LegacyAdoption ==
  [][ \A c \in 1..Len(chats) :
        ( /\ last'.op = "continue_chat"
          /\ Chat_get(chats, last'.chat_id) = c
          /\ HasIdentity(last'.body)
          /\ validate_message(last'.body.message) = "" )
        => /\ chats[c].user_id = 0 =>
                /\ last'.status = 200
                /\ last'.userId # 0
                /\ chats'[c].user_id = last'.userId
           /\ ( /\ chats[c].user_id # 0
                /\ chats[c].user_id # User_get_by_email(users, last'.body.email) )
              => last'.status = 403 ]_vars

\* C3: a StartChat request that succeeds adds exactly one chat, titled with
\* the title extracted from the model output, and exactly two turns for it:
\* the user turn with the submitted message (as the view decodes it), then
\* the AI turn with the extracted reply; the chatId, reply and title of the
\* response are the stored ones.
C3_StartChatPersistsPair ==
  [][ (last'.op = "post_chat" /\ last'.status = 200) =>
        LET parsed == extract_json_from_response(last'.gpt_resp)
            c == Len(chats) + 1
        IN /\ CreatesChat
           /\ chats'[c].id = c
           /\ chats'[c].title = DictGet(parsed.val, <<KTitle>>)
           /\ AppendsPair(c, last'.body.message, DictGet(parsed.val, <<KReply>>))
           /\ Len(TurnsOf(conversations', c)) = 2
           /\ last'.chatId = chats'[c].id
           /\ last'.title = chats'[c].title
           /\ last'.reply = conversations'[Len(conversations')].message ]_vars

\* a StartChat request succeeded on a store that already held a chat, with a
\* title taken from the model output
C3_Witness ==
  /\ last.op = "post_chat"
  /\ last.status = 200
  /\ last.chatId = Len(chats)
  /\ Len(chats) >= 2
  /\ chats[last.chatId].title = Str(<<"Exam Info">>)
  /\ Len(TurnsOf(conversations, last.chatId)) = 2

\* C4: when the provider fails the one gateway call of a StartChat request,
\* the request still succeeds: one call was made, one chat is created with the
\* default title, and the pair persisted for it has the apology as its AI
\* message, which is also the reply of the response.
C4_GatewayFailureDegrades ==
  [][ (last'.op = "post_chat" /\ last'.provider_failed) =>
        LET c == Len(chats) + 1
        IN /\ last'.status = 200
           /\ last'.gateway_calls = 1
           /\ CreatesChat
           /\ chats'[c].title = Str(DefaultTitle)
           /\ last'.title = Str(DefaultTitle)
           /\ AppendsPair(c, last'.body.message, Str(Apology))
           /\ last'.reply = Str(Apology)
           /\ last'.chatId = c ]_vars

\* a StartChat request whose gateway call failed was answered with the apology
C4_Witness ==
  /\ last.op = "post_chat"
  /\ last.provider_failed
  /\ last.status = 200
  /\ last.reply = Str(Apology)
  /\ conversations # <<>>
  /\ conversations[Len(conversations)].message = Str(Apology)

\* C5: a request is rejected with a message validation error exactly when the
\* message the view validates (the message field, stripped) has length 0 or
\* more than 1000; a rejected request calls no gateway and leaves users,
\* chats and conversations as they were.
C5_MessageValidation ==
  [][ last'.op \in {"post_chat", "continue_chat"} =>
        LET n == TextLen(last'.body.message)
            rejected == last'.status = 400 /\ last'.error \in MessageErrors
        IN /\ rejected <=> (n = 0 \/ n > MaxMessageChars)
           /\ rejected => /\ last'.gateway_calls = 0
                          /\ UNCHANGED <<users, chats, conversations>> ]_vars

\* a message of 1001 characters was rejected
C5_Witness ==
  /\ last.op = "post_chat"
  /\ TextLen(last.body.message) = MaxMessageChars + 1
  /\ last.status = 400
  /\ last.error = "Message too long (max 1000 chars)"

\* C6: a ContinueChat request whose chat identifier matches no stored chat
\* (unknown or malformed) never succeeds, calls no gateway and appends no
\* turn; it is answered 404 whenever its message and user data pass the
\* validation the view runs first.
C6_UnknownChatNotFound ==
  [][ ( /\ last'.op = "continue_chat"
        /\ ~(last'.chat_id.wellformed /\ last'.chat_id.n \in 1..Len(chats)) )
      => /\ last'.status \in {400, 404}
         /\ (validate_message(last'.body.message) = "" /\ HasIdentity(last'.body))
              => last'.status = 404
         /\ last'.gateway_calls = 0
         /\ conversations' = conversations
         /\ chats' = chats ]_vars

\* a malformed chat identifier was answered 404 on a store that holds a chat
C6_Witness ==
  /\ last.op = "continue_chat"
  /\ last.status = 404
  /\ ~last.chat_id.wellformed
  /\ chats # <<>>

\* C7: whatever text the gateway returns, extraction returns a result with a
\* reply and a title, and the request runs to completion and persists the
\* pair.
C7_MalformedOutputNeverHardError ==
  last.gateway_calls = 1 =>
    LET parsed == extract_json_from_response(last.gpt_resp)
    IN /\ parsed.exc = ""
       /\ HasKey(parsed.val, <<KReply>>)
       /\ HasKey(parsed.val, <<KTitle>>)
       /\ last.status = 200
       /\ Len(conversations) >= 2
       /\ IsPair(SubSeq(conversations, Len(conversations) - 1, Len(conversations)),
                 last.chatId, last.body.message, last.reply)

\* C8: when the model returns a JSON object with a non-empty reply and no
\* title, ContinueChat succeeds and the reply it returns and persists is the
\* value of the reply key.
C8_ContinuationNeedsReplyOnly ==
  LET p == json_loads(last.gpt_resp)
  IN ( /\ last.op = "continue_chat"
       /\ last.gateway_calls = 1
       /\ p.ok
       /\ p.v.t = "obj"
       /\ Truthy(DictGet(p.v, <<KReply>>))
       /\ ~HasKey(p.v, <<KTitle>>) )
     => /\ last.status = 200
        /\ last.reply = DictGet(p.v, <<KReply>>)
        /\ conversations[Len(conversations)].message = DictGet(p.v, <<KReply>>)

\* C9: extraction from the JSON serialization of {reply: x, title: y} returns
\* reply x and title y, for every pair of strings drawn, with the extractor
\* of either source file.
C9_ExtractionRoundTrip ==
  extraction.phase = "extracted" =>
    /\ extraction.result.exc = ""
    /\ DictGet(extraction.result.val, <<KReply>>) = Str(extraction.reply)
    /\ DictGet(extraction.result.val, <<KTitle>>) = Str(extraction.title)
    /\ extraction.result_server = extraction.result

\* a pair with an empty reply (the first tier declines it) and a title that
\* holds a quote and a closing brace went through the extractor
C9_Witness ==
  /\ extraction.phase = "extracted"
  /\ extraction.reply = <<>>
  /\ extraction.title = <<QUOTE, RBRACE>>
  /\ DictGet(extraction.result.val, <<KTitle>>) = Str(<<QUOTE, RBRACE>>)

MaxWindow == 11

\* the window asked of filter_by_chat_last_n holds only turns of the chat, at
\* most n of them, and all of the chat's turns when it has fewer than n
WindowOk(c, n) ==
  LET r == filter_by_chat_last_n(conversations, c, n)
      all == TurnsOf(conversations, c)
  IN /\ \A k \in 1..Len(r) : r[k].chat_id = c
     /\ Len(r) <= n
     /\ Len(all) < n => Reverse(r) = all

\* C10: in every reachable store, for every chat and every n, the window of
\* the last n turns holds only turns of that chat, at most n of them, and all
\* of them when the chat has fewer than n; ContinueChat puts at most 10 prior
\* turns in the prompt.
C10_LastNTurns ==
  /\ \A c \in 1..Len(chats), n \in 0..MaxWindow : WindowOk(c, n)
  /\ (last.op = "continue_chat" /\ last.gateway_calls = 1)
       => Len(last.messages) - 2 <= HistoryWindow

\* the same for the windows of one turn or more
WindowOfPositiveN ==
  /\ \A c \in 1..Len(chats), n \in 1..MaxWindow : WindowOk(c, n)
  /\ (last.op = "continue_chat" /\ last.gateway_calls = 1)
       => Len(last.messages) - 2 <= HistoryWindow

----------------------------------------------------------------------------
(* Properties of the store under concurrent requests (SpecRace) and of the  *)
(* later claims.                                                            *)

\* the turns of a sequence are in non-decreasing order of creation time
NonDecreasing(seq) == \A k \in 1..(Len(seq) - 1) : seq[k].created_at <= seq[k + 1].created_at

\* C11: in every reachable store, for every chat and every n of 1 or more,
\* the window of the last n turns (newest first by _id, then reversed) is in
\* non-decreasing order of creation time, also when two ContinueChat requests
\* on the same chat overlap so that one stamps its turns before the other and
\* inserts them after it.
C11_WindowChronological ==
  \A c \in 1..Len(chats), n \in 1..MaxWindow :
    NonDecreasing(Reverse(filter_by_chat_last_n(conversations, c, n)))

\* a sequence of turns made of user/AI pairs: an even number of turns, a user
\* turn at every odd position and an AI turn right after it
PairedTurns(seq) ==
  /\ Len(seq) % 2 = 0
  /\ \A k \in 1..Len(seq) : seq[k].role = (IF k % 2 = 1 THEN "user" ELSE "AI")

\* C12: in every reachable store, after any interleaving of StartChat and
\* ContinueChat requests, the turns of every chat in store order are adjacent
\* user/AI pairs: no chat is observed with an odd number of turns or with
\* two user turns in a row.
C12_PairsAdjacent ==
  \A c \in 1..Len(chats) : PairedTurns(TurnsOf(conversations, c))

\* C13: a ContinueChat request, whether it succeeds or fails and whatever
\* title the model output holds, leaves the stored title of every chat as it
\* was before the request.
C13_TitleSetOnlyAtCreation ==
  [][ last'.op = "continue_chat" =>
        /\ Len(chats') = Len(chats)
        /\ \A c \in 1..Len(chats) : chats'[c].title = chats[c].title ]_vars

\* the request of the step reaches get_or_create_user: its message and user
\* data are valid and, for continue_chat, the chat exists
Upserts ==
  /\ last'.op \in {"post_chat", "continue_chat"}
  /\ validate_message(last'.body.message) = ""
  /\ HasIdentity(last'.body)
  /\ last'.op = "continue_chat" => Chat_get(chats, last'.chat_id) # 0

UniqueEmails(us) == \A i, j \in 1..Len(us) : us[i].email = us[j].email => i = j

\* what the step does to users for a request with body b, e being the record
\* stored for b.email before the step (0: none) and kept_empty telling whether
\* an empty supplied password leaves the stored one
UpsertEffect(b, e, kept_empty) ==
  IF e = 0
    THEN /\ Len(users') = Len(users) + 1
         /\ SubSeq(users', 1, Len(users)) = users
         /\ users'[Len(users')].email = b.email
         /\ users'[Len(users')].userName = b.userName
         /\ users'[Len(users')].password = b.password
         /\ last'.userId = users'[Len(users')].id
    ELSE /\ Len(users') = Len(users)
         /\ last'.userId = users[e].id
         /\ users'[e].id = users[e].id
         /\ users'[e].email = users[e].email
         /\ users'[e].userName = b.userName
         /\ users'[e].password = (IF kept_empty /\ b.password = <<>> THEN users[e].password
                                  ELSE b.password)
         /\ \A i \in 1..Len(users) : i # e => users'[i] = users[i]

IsPrefix(a, b) == Len(a) <= Len(b) /\ SubSeq(b, 1, Len(a)) = a

\* C15: every step of StartChat and ContinueChat, overlapping or not, keeps
\* every stored turn with its chat, role and message, removes none, and
\* leaves each chat with a turn sequence that has the sequence before the
\* step as a prefix.
C15_TurnsAppendOnly ==
  [][ /\ Len(conversations') >= Len(conversations)
      /\ \A i \in 1..Len(conversations) :
            /\ conversations'[i].chat_id = conversations[i].chat_id
            /\ conversations'[i].role = conversations[i].role
            /\ conversations'[i].message = conversations[i].message
      /\ \A c \in 1..Len(chats') :
            IsPrefix(TurnsOf(conversations, c), TurnsOf(conversations', c)) ]_vars

\* two overlapping ContinueChat requests have both appended their turns to
\* the chat that held turns at start-up
C15_Witness ==
  /\ \A w \in Workers : inflight[w].pc = "done" /\ inflight[w].op = "continue_chat"
                          /\ inflight[w].status = 200
  /\ Len(TurnsOf(conversations, 1)) = 2 * MaxRacePairs + 4
  /\ conversations[Len(conversations)].created_at < clock

\* the message list is one system message, the turns of window in their
\* order with the roles the model knows, and the new message as a user
\* message at the end
IsMessageList(m, window, message) ==
  /\ Len(m) = Len(window) + 2
  /\ m[1].role = "system"
  /\ \A i \in 2..Len(m) : m[i].role \in {"user", "assistant"}
  /\ \A i \in 1..Len(window) :
        /\ m[i + 1].role = (IF window[i].role = "AI" THEN "assistant" ELSE "user")
        /\ m[i + 1].content = window[i].message
  /\ m[Len(m)].role = "user"
  /\ m[Len(m)].content = Str(message)

\* the newest k turns of a sequence, oldest first
NewestTurns(seq, k) == SubSeq(seq, Len(seq) - Min(k, Len(seq)) + 1, Len(seq))

\* C16: the message list a ContinueChat request sends to the gateway is one
\* system message, then the 10 newest prior turns of the chat (all of them
\* when there are fewer) oldest first, in store order and in order of
\* creation time, 'AI' turns as "assistant" and the others as "user", then
\* the new message as a "user" message; the list of a StartChat request is
\* the system message and the new user message only.
C16_MessageListShape ==
  [][ last'.gateway_calls = 1 =>
        /\ last'.op = "continue_chat" =>
              LET window == NewestTurns(TurnsOf(conversations, Chat_get(chats, last'.chat_id)),
                                        HistoryWindow)
              IN /\ IsMessageList(last'.messages, window, last'.body.message)
                 /\ NonDecreasing(window)
        /\ last'.op = "post_chat" => IsMessageList(last'.messages, <<>>, last'.body.message) ]_vars

\* a ContinueChat request on a chat with more than 10 prior turns sent 12
\* messages, the first prior one a user turn and the next an AI turn
C16_Witness ==
  /\ last.op = "continue_chat"
  /\ last.gateway_calls = 1
  /\ Len(last.messages) = HistoryWindow + 2
  /\ last.messages[2].role = "user"
  /\ last.messages[3].role = "assistant"
  /\ last.messages[3].content = Str(<<"old answer">>)
  /\ Len(TurnsOf(conversations, Chat_get(chats, last.chat_id))) > HistoryWindow + 2

\* C17: in every interleaving of requests, a step never changes the owner a
\* chat already has, and a ContinueChat request that inserts a turn for a
\* chat is a request of the owner the chat has at that moment; this covers
\* two ContinueChat requests by different identities that both read the same
\* ownerless chat before either has saved its adoption.
C17_OwnerStable ==
  [][ /\ \A c \in 1..Len(chats) :
            chats[c].user_id # 0 => chats'[c].user_id = chats[c].user_id
      /\ \A w \in Workers :
            ( /\ inflight[w].op = "continue_chat"
              /\ inflight[w].pc = "insert"
              /\ inflight'[w] # inflight[w] )
            => chats[inflight[w].chat.id].user_id = inflight[w].user_id ]_vars

\* C18: when two deployments receive the same request on a chat, and their
\* stores hold the same turns for that chat (for a StartChat request: for the
\* chat it creates, which has none), both send the same message list to the
\* model, whatever turns the stores hold for other chats.
C18_PromptIsolation ==
  [][ ( /\ last'.gateway_calls = 1
        /\ twin'.last.gateway_calls = 1
        /\ \/ last'.op = "post_chat"
           \/ TurnsOf(conversations, Chat_get(chats, last'.chat_id))
                = TurnsOf(twin.conversations, Chat_get(chats, last'.chat_id)) )
      => last'.messages = twin'.last.messages ]_vars

\* C19: a ContinueChat request that ends in a validation error (400), in
\* NotFound (404) or in Forbidden (403) leaves users, chats and conversations
\* as they were: no user record created or updated, no owner or title
\* changed, no turn added.
C19_FailedContinueChangesNothing ==
  [][ (last'.op = "continue_chat" /\ last'.status \in {400, 403, 404})
        => UNCHANGED <<users, chats, conversations>> ]_vars

\* the same for the requests rejected before get_or_create_user is called
C19_RejectedBeforeUpsert ==
  [][ (last'.op = "continue_chat" /\ last'.status \in {400, 404})
        => UNCHANGED <<users, chats, conversations>> ]_vars

====
